---- MODULE Spec2Model ----
(***************************************************************************)
(* Model of scraper/main.py: the two-phase course crawl of class Scraper   *)
(* (scrape_branches / fetch_single_branch, scrape_courses /                *)
(* fetch_single_course), the cleaner and the export steps of run().        *)
(*                                                                         *)
(* Python strings are sequences of one-character strings, so that          *)
(* split, strip, replace and lower are computed and not assumed.           *)
(* The remote site is the environment: each fetch draws its response from  *)
(* a small set of named pages.                                             *)
(***************************************************************************)
EXTENDS Integers, Sequences, FiniteSets, TLC

(* ---------------------------------------------------------------------- *)
(* Bounds of the model and constants of the program                        *)
(* ---------------------------------------------------------------------- *)

\* Number of leading listing pages of a unit whose response is unconstrained
\* (see ListingAllowed).
MaxPages == 2

\* a loop that runs one page too far
PageCeilingPlusOne == 201

\* range(200) in fetch_single_branch
PageCeiling == 200

\* The academic units crawled: two keys of self.branches.
Branches == <<"cas", "eng">>

Units == {Branches[n] : n \in 1..Len(Branches)}

(* ---------------------------------------------------------------------- *)
(* Python string operations on sequences of characters                     *)
(* ---------------------------------------------------------------------- *)

UpperChars == <<"A","B","C","D","E","F","G","H","I","J","K","L","M",
                "N","O","P","Q","R","S","T","U","V","W","X","Y","Z">>

LowerChars == <<"a","b","c","d","e","f","g","h","i","j","k","l","m",
                "n","o","p","q","r","s","t","u","v","w","x","y","z">>

Digits == {"0","1","2","3","4","5","6","7","8","9"}

\* str.isspace for the characters the pages use
IsSpace(ch) == ch \in {" ", "\n", "\t"}

\* str.lower on one character
LowerChar(ch) ==
    IF \E n \in 1..26 : UpperChars[n] = ch
    THEN LowerChars[CHOOSE n \in 1..26 : UpperChars[n] = ch]
    ELSE ch

\* str.lower
Lower(s) == [n \in 1..Len(s) |-> LowerChar(s[n])]

RECURSIVE LStrip(_)
LStrip(s) == IF s # <<>> /\ IsSpace(Head(s)) THEN LStrip(Tail(s)) ELSE s

RECURSIVE RStrip(_)
RStrip(s) ==
    IF s # <<>> /\ IsSpace(s[Len(s)]) THEN RStrip(SubSeq(s, 1, Len(s) - 1)) ELSE s

\* str.strip()
Strip(s) == LStrip(RStrip(s))

\* str.find + 1: index of the first occurrence of sub in s, 0 when there is none
Find(s, sub) ==
    LET hits == {n \in 1..(Len(s) - Len(sub) + 1) : SubSeq(s, n, n + Len(sub) - 1) = sub}
    IN  IF hits = {} THEN 0 ELSE CHOOSE n \in hits : \A m \in hits : n <= m

\* sub in s
Contains(s, sub) == Find(s, sub) # 0

\* str.replace(old, new): every non-overlapping occurrence, left to right
RECURSIVE Replace(_, _, _)
Replace(s, old, new) ==
    LET f == Find(s, old)
    IN  IF f = 0 THEN s
        ELSE SubSeq(s, 1, f - 1) \o new
             \o Replace(SubSeq(s, f + Len(old), Len(s)), old, new)

\* str.split(sep)[0]
SplitFirst(s, sep) ==
    LET f == Find(s, sep) IN IF f = 0 THEN s ELSE SubSeq(s, 1, f - 1)

\* concatenation of a sequence of strings
RECURSIVE Concat(_)
Concat(ss) == IF ss = <<>> THEN <<>> ELSE Head(ss) \o Concat(Tail(ss))

\* the set of elements of a sequence
Range(s) == {s[n] : n \in 1..Len(s)}

\* all orderings without repetition of a finite set
Perms(S) ==
    {p \in [1..Cardinality(S) -> S] : \A a, b \in 1..Cardinality(S) : p[a] = p[b] => a = b}

(* ---------------------------------------------------------------------- *)
(* Listing pages (the responses of requests.get in fetch_single_branch)    *)
(* ---------------------------------------------------------------------- *)

NL == <<"\n">>

\* texts of <li> entries of a course feed
EntryCS1   == <<"C","S"," ","1",":"," ","x">>
EntryCS2   == <<" ","C","S"," ","2",":","y">>
EntryCS1lc == <<"c","s","1",":">>

\* A listing response: raised = requests.get raised (connection error or
\* timeout); hasFeed = the document has <ul class="course-feed">; children =
\* the texts of the child nodes of that element, in document order.
\* A non-2xx answer is an ordinary document without the feed ("nofeed").
ListingPage(name) ==
    CASE name = "fail"   -> [raised |-> TRUE,  hasFeed |-> FALSE, children |-> <<>>]
      [] name = "nofeed" -> [raised |-> FALSE, hasFeed |-> FALSE, children |-> <<>>]
      [] name = "empty"  -> [raised |-> FALSE, hasFeed |-> TRUE,  children |-> <<NL>>]
      [] name = "A"      -> [raised |-> FALSE, hasFeed |-> TRUE,
                             children |-> <<NL, EntryCS1, NL, EntryCS2, NL>>]
      [] name = "B"      -> [raised |-> FALSE, hasFeed |-> TRUE,
                             children |-> <<NL, EntryCS1lc, NL>>]

ListingNames == {"fail", "nofeed", "empty", "A", "B"}

\* the page a feed that ignores the page index keeps serving
StuckPage == "A"

\* results is None or len(results.text.strip()) == 0
TerminationSignal(page) ==
    ~page.hasFeed \/ Len(Strip(Concat(page.children))) = 0

\* class_code = tmp.text.split(':')[0].strip().replace(' ', '').lower()
ClassCode(text) ==
    Lower(Replace(Strip(SplitFirst(text, <<":">>)), <<" ">>, <<>>))

\* The inner loop over the children of the feed: tmp is the next sibling of
\* each child ('content is not str' is always true), None after the last.
RECURSIVE GroupFrom(_, _)
GroupFrom(children, n) ==
    IF n > Len(children) THEN <<>>
    ELSE LET none == (n = Len(children))
             text == IF none THEN <<>> ELSE children[n + 1]
         IN  IF none \/ Len(Strip(text)) = 0
             THEN GroupFrom(children, n + 1)
             ELSE <<ClassCode(text)>> \o GroupFrom(children, n + 1)

Group(page) == GroupFrom(page.children, 1)

(* ---------------------------------------------------------------------- *)
(* Python values of a record: None, a str or a list of str                 *)
(* ---------------------------------------------------------------------- *)

PyNone    == [t |-> "none", v |-> <<>>]
PyStr(s)  == [t |-> "str",  v |-> s]
PyList(l) == [t |-> "list", v |-> l]

(* ---------------------------------------------------------------------- *)
(* cleaner and filter_numerical                                            *)
(* ---------------------------------------------------------------------- *)

LabelPrereq == <<"P","r","e","r","e","q",":">>
LabelCoreq  == <<"C","o","r","e","q",":">>
VarSentinel == <<"v","a","r">>
HubSequenceTag ==
    <<"P","a","r","t"," ","o","f"," ","a"," ","H","u","b"," ",
      "s","e","q","u","e","n","c","e">>

\* int(s) does not raise ValueError, for a stripped ASCII string: an optional
\* sign, then digits with single underscores between them
ParsesAsInt(s) ==
    LET body == IF s # <<>> /\ s[1] \in {"+", "-"} THEN Tail(s) ELSE s
    IN  /\ body # <<>>
        /\ \A n \in 1..Len(body) : body[n] \in Digits \cup {"_"}
        /\ body[1] \in Digits /\ body[Len(body)] \in Digits
        /\ \A n \in 1..(Len(body) - 1) : ~(body[n] = "_" /\ body[n + 1] = "_")

\* the 'var' test without lower()
filter_numerical_case_sensitive(string) ==
    IF Contains(string, VarSentinel) THEN VarSentinel
    ELSE SelectSeq(string, LAMBDA ch : ch \in Digits)

\* filter_numerical
filter_numerical(string) ==
    IF Contains(Lower(string), VarSentinel) THEN VarSentinel
    ELSE SelectSeq(string, LAMBDA ch : ch \in Digits)

\* one replace instead of the while loop
CollapseOnce(s) == Replace(s, <<" ", " ">>, <<" ">>)

\* while '  ' in d: d = d.replace('  ', ' ')
RECURSIVE CollapseSpaces(_)
CollapseSpaces(s) ==
    IF Contains(s, <<" ", " ">>)
    THEN CollapseSpaces(Replace(s, <<" ", " ">>, <<" ">>))
    ELSE s

\* if label in s: s = s.replace(label, '')
StripLabel(s, label) == IF Contains(s, label) THEN Replace(s, label, <<>>) ELSE s

\* the loop body without the strip and the length test
NormalizeValueNoResidual(x) ==
    IF \/ (x.t = "str" /\ x.v = <<>>)
       \/ (x.t = "list" /\ x.v = <<>>)
       \/ (x.t = "list" /\ x.v = <<HubSequenceTag>>)
    THEN PyNone
    ELSE x

\* the body of the loop 'for i in contents' of cleaner, for one value
NormalizeValue(x) ==
    IF \/ (x.t = "str" /\ x.v = <<>>)
       \/ (x.t = "list" /\ x.v = <<>>)
       \/ (x.t = "list" /\ x.v = <<HubSequenceTag>>)
    THEN PyNone
    ELSE IF x.t = "str"
         THEN LET s == Strip(x.v)
              IN  IF ParsesAsInt(s) THEN PyStr(s)
                  ELSE IF Len(s) = 1 \/ Len(s) = 0 THEN PyNone ELSE PyStr(s)
         ELSE x

\* cleaner, on the dict that fetch_single_course builds (five str values and
\* a list)
cleaner(contents) ==
    LET description == CollapseSpaces(contents.description.v)
        credit      == filter_numerical(contents.credit.v)
        prereq      == StripLabel(contents.prereq.v, LabelPrereq)
        coreq       == StripLabel(contents.coreq.v, LabelCoreq)
    IN  [course      |-> NormalizeValue(contents.course),
         prereq      |-> NormalizeValue(PyStr(prereq)),
         coreq       |-> NormalizeValue(PyStr(coreq)),
         description |-> NormalizeValue(PyStr(description)),
         credit      |-> NormalizeValue(PyStr(credit)),
         hub_credit  |-> NormalizeValue(contents.hub_credit)]

(* ---------------------------------------------------------------------- *)
(* Detail pages (the responses of requests.get in fetch_single_course)     *)
(* ---------------------------------------------------------------------- *)

\* Markup of the hub list is a sequence of tokens: a tag is one token, text
\* is one token per character.
TagUL  == "<ul>"
TagLI  == "<li>"
TagLIe == "</li>"
TagULe == "</ul>"
Tags   == {TagUL, TagLI, TagLIe, TagULe}

HubMarkup1 ==
    <<TagUL, TagLI>> \o <<"H","u","b"," ","A">> \o <<TagLIe, TagLI>>
    \o <<"P","a","t","h","w","a","y"," ","1"," ","B","U"," ","x">>
    \o <<TagLIe, TagULe>>

HubMarkup2 ==
    <<TagUL, TagLI>> \o <<"H","u","b"," ","Z">> \o <<TagLIe, TagULe>>

\* A detail response: raised = requests.get raised; hasHub / hub = the element
\* <ul class="coursearch-result-hub-list"> and its markup; hasDesc / lines =
\* the element <div class="coursearch-result-content-description"> and the
\* lines of its text (full.text.splitlines()).
DetailPage(name) ==
    CASE name = "fail" ->
           [raised |-> TRUE, hasHub |-> FALSE, hub |-> <<>>,
            hasDesc |-> FALSE, lines |-> <<>>]
      [] name = "nodesc" ->
           [raised |-> FALSE, hasHub |-> TRUE, hub |-> HubMarkup2,
            hasDesc |-> FALSE, lines |-> <<>>]
      [] name = "short" ->
           [raised |-> FALSE, hasHub |-> FALSE, hub |-> <<>>,
            hasDesc |-> TRUE,
            lines |-> << <<>>, LabelPrereq \o <<" ","C","S","1">>, <<>> >>]
      [] name = "good1" ->
           [raised |-> FALSE, hasHub |-> TRUE, hub |-> HubMarkup1,
            hasDesc |-> TRUE,
            lines |-> << <<>>,
                         LabelPrereq \o <<" ","C","S","1">>,
                         <<>>,
                         LabelCoreq,
                         <<>>,
                         <<" ","I","n","t","r","o"," "," "," ","t","o">>,
                         <<"4"," ","c","r">> >>]
      [] name = "good2" ->
           [raised |-> FALSE, hasHub |-> FALSE, hub |-> <<>>,
            hasDesc |-> TRUE,
            lines |-> << <<>>,
                         <<>>,
                         <<>>,
                         LabelCoreq \o <<"M","A","2">>,
                         <<>>,
                         <<"L","a","b">>,
                         <<"V","a","r","i","a","b","l","e">>,
                         <<>> >>]

DetailNames == {"fail", "nodesc", "short", "good1", "good2"}

\* str.split(sep) for a one-token separator
RECURSIVE SplitAll(_, _)
SplitAll(s, sep) ==
    LET f == Find(s, <<sep>>)
    IN  IF f = 0 THEN <<s>>
        ELSE <<SubSeq(s, 1, f - 1)>> \o SplitAll(SubSeq(s, f + 1, Len(s)), sep)

\* re.sub('<[^>]+>', '', val).strip()
StripTags(val) == Strip(SelectSeq(val, LAMBDA tok : tok \notin Tags))

\* hub_list of fetch_single_course: str(None) is 'None' when the element is
\* missing
HubList(page) ==
    LET markup == IF page.hasHub THEN page.hub ELSE <<"N","o","n","e">>
        parts  == SplitAll(markup, TagLI)
        texts  == [n \in 1..Len(parts) |-> StripTags(parts[n])]
        kept   == SelectSeq(texts, LAMBDA x : x # <<>>)
        last   == Len(kept)
    IN  IF kept # <<>> /\ Contains(Lower(kept[last]), <<"p","a","t","h","w","a","y">>)
        THEN [kept EXCEPT ![last] = SplitFirst(kept[last], <<"B","U">>)]
        ELSE kept

\* full_list[1], [3], [5], [6] exist
LinesSuffice(page) == Len(page.lines) >= 7

\* full_dict of fetch_single_course (Python indexes from 0)
FullDict(course, page) ==
    [course      |-> PyStr(course),
     prereq      |-> PyStr(page.lines[2]),
     coreq       |-> PyStr(page.lines[4]),
     description |-> PyStr(page.lines[6]),
     credit      |-> PyStr(page.lines[7]),
     hub_credit  |-> PyList(HubList(page))]

\* what fetch_single_course returns: False, or the cleaned dict
NoDict == [course |-> PyNone, prereq |-> PyNone, coreq |-> PyNone,
           description |-> PyNone, credit |-> PyNone, hub_credit |-> PyNone]
ReturnFalse   == [isDict |-> FALSE, val |-> NoDict]
ReturnDict(d) == [isDict |-> TRUE,  val |-> d]

\* fetch_single_course from line 169 on, for the document held in content:
\* the value returned, or the exception raised
Extract(course, page) ==
    IF ~page.hasDesc
    THEN [pc |-> "returned", err |-> "none", ret |-> ReturnFalse]
    ELSE IF ~LinesSuffice(page)
         THEN [pc |-> "raised", err |-> "IndexError", ret |-> ReturnFalse]
         ELSE [pc |-> "returned", err |-> "none",
               ret |-> ReturnDict(cleaner(FullDict(course, page)))]

(* ---------------------------------------------------------------------- *)
(* Export: create_csv and push_to_bigquery                                 *)
(* ---------------------------------------------------------------------- *)

\* str(list) of a list of str, as DataFrame.to_csv writes a list cell
RECURSIVE ListRepr(_)
ListRepr(l) ==
    IF l = <<>> THEN <<>>
    ELSE <<"'">> \o Head(l) \o <<"'">>
         \o (IF Len(l) > 1 THEN <<",", " ">> ELSE <<>>) \o ListRepr(Tail(l))

\* one cell of the csv file: None is written as the empty cell
CsvCell(x) ==
    IF x.t = "none" THEN <<>>
    ELSE IF x.t = "str" THEN x.v
    ELSE <<"[">> \o ListRepr(x.v) \o <<"]">>

CsvRow(d) ==
    <<CsvCell(d.course), CsvCell(d.prereq), CsvCell(d.coreq),
      CsvCell(d.description), CsvCell(d.credit), CsvCell(d.hub_credit)>>

\* DataFrame.to_csv(index=False): one row per record
ToCsv(frame) == [n \in 1..Len(frame) |-> CsvRow(frame[n])]

\* Path(__file__).parent: the directory of main.py
PackageDir == <<"repo", "scraper">>

\* self.parent / 'courses.csv'
WritePath == PackageDir \o <<"courses.csv">>

\* "scraper/courses.csv", resolved against the working directory
ReadPath(cwd) == cwd \o <<"scraper", "courses.csv">>

\* working directories the program can be started from
WorkingDirs == {<<"repo">>, <<"repo", "scraper">>, <<"home">>}

\* a courses.csv left by an earlier crawl
StaleCsv == << <<<<"o","l","d","1">>, <<>>, <<>>, <<>>, <<"4">>, <<>>>> >>

(* ---------------------------------------------------------------------- *)
(* State                                                                   *)
(* ---------------------------------------------------------------------- *)

VARIABLES
    run_pc,        \* the statement of run() in progress, "done" or "aborted"
    fault,         \* the exception that left run(), "none" while there is none
    bpc,           \* per unit: the task fetch_single_branch in the pool
    i,             \* per unit: position of the iterator of range(200)
    whole_branch,  \* per unit: whole_branch
    fetched,       \* per unit: the requests issued, each with its response
    out,           \* per unit: the lines printed by the task
    class_list,    \* self.class_list after line 94
    yielded,       \* per unit: the identifiers the task returned, as a set
    cpc,           \* per position of class_list: the task fetch_single_course
    queries,       \* per position: the requests issued, each with its response
    content,       \* per position: the document held in content
    ret,           \* per position: the value returned
    cerr,          \* per position: the exception raised
    class_info,    \* self.class_info, as the list of its rows
    csv,           \* the file create_csv writes
    body,          \* the frame push_to_bigquery reads
    table,         \* the destination table and the number of load jobs
    clean          \* one call of cleaner on its own: arguments and results

vars == <<run_pc, fault, bpc, i, whole_branch, fetched, out, class_list, yielded,
          cpc, queries, content, ret, cerr, class_info, csv, body, table, clean>>

branchVars == <<bpc, i, whole_branch, fetched, out>>
courseVars == <<cpc, queries, content, ret, cerr>>
sinkVars   == <<class_info, csv, body, table>>

\* no call of cleaner on its own is in progress
CleanIdle ==
    [pc |-> "idle", raw |-> NoDict, once |-> NoDict, twice |-> NoDict,
     err |-> "none", collapsed |-> <<>>, iterations |-> 0]

Init ==
    /\ run_pc = "scrape_branches"
    /\ fault = "none"
    /\ bpc = [u \in Units |-> "queued"]
    /\ i = [u \in Units |-> 0]
    /\ whole_branch = [u \in Units |-> <<>>]
    /\ fetched = [u \in Units |-> <<>>]
    /\ out = [u \in Units |-> <<>>]
    /\ class_list = <<>>
    /\ yielded = [u \in Units |-> {}]
    /\ cpc = <<>>
    /\ queries = <<>>
    /\ content = <<>>
    /\ ret = <<>>
    /\ cerr = <<>>
    /\ class_info = <<>>
    /\ csv = [written |-> 0, rows |-> <<>>]
    /\ body = <<>>
    /\ table = [loads |-> 0, rows |-> <<>>]
    /\ clean = CleanIdle

(* ---------------------------------------------------------------------- *)
(* Phase 1: scrape_branches and fetch_single_branch                        *)
(* ---------------------------------------------------------------------- *)

\* every request of unit u so far was answered with the stuck page
StuckSoFar(u) == \A n \in 1..Len(fetched[u]) : fetched[u][n].resp = StuckPage

\* The responses the site can give to the next request of unit u: anything
\* for the first MaxPages pages. From then on the listing is the stuck feed,
\* which answers every index with the same page, or it has ended.
ListingAllowed(u, name) ==
    IF i[u] < MaxPages THEN TRUE
    ELSE IF StuckSoFar(u) THEN name = StuckPage
    ELSE ListingPage(name).raised \/ TerminationSignal(ListingPage(name))

\* the page's identifiers put in front of the accumulator
AccumulateInFront(acc, group) == group \o acc

\* for i in group: whole_branch.append(i)
Accumulate(acc, group) == acc \o group

\* a pool worker takes the task of unit u: lines 103-106
BranchStart(u) ==
    /\ run_pc = "scrape_branches"
    /\ bpc[u] = "queued"
    /\ bpc' = [bpc EXCEPT ![u] = "paging"]
    /\ out' = [out EXCEPT ![u] = Append(@, "Started")]
    /\ whole_branch' = [whole_branch EXCEPT ![u] = <<>>]
    /\ i' = [i EXCEPT ![u] = 0]
    /\ UNCHANGED <<run_pc, fault, fetched, class_list, yielded>>
    /\ UNCHANGED courseVars
    /\ UNCHANGED sinkVars
    /\ UNCHANGED clean

\* one iteration of 'for i in range(200)': lines 108-129, and lines 131-133
\* when the loop is left
BranchFetch(u) ==
    /\ run_pc = "scrape_branches"
    /\ bpc[u] = "paging"
    /\ i[u] < PageCeiling
    /\ \E name \in ListingNames :
         /\ ListingAllowed(u, name)
         /\ LET page == ListingPage(name) IN
            /\ fetched' = [fetched EXCEPT ![u] = Append(@, [index |-> i[u], resp |-> name])]
            /\ IF page.raised
               THEN /\ bpc' = [bpc EXCEPT ![u] = "raised"]
                    /\ UNCHANGED <<i, whole_branch, out>>
               ELSE IF TerminationSignal(page)
               THEN /\ bpc' = [bpc EXCEPT ![u] = "returned"]
                    /\ out' = [out EXCEPT ![u] = Append(@, "Completed")]
                    /\ UNCHANGED <<i, whole_branch>>
               ELSE /\ whole_branch' = [whole_branch EXCEPT ![u] = Accumulate(@, Group(page))]
                    /\ i' = [i EXCEPT ![u] = @ + 1]
                    /\ IF i[u] + 1 = PageCeiling
                       THEN /\ bpc' = [bpc EXCEPT ![u] = "returned"]
                            /\ out' = [out EXCEPT ![u] = Append(@, "Completed")]
                       ELSE UNCHANGED <<bpc, out>>
    /\ UNCHANGED <<run_pc, fault, class_list, yielded>>
    /\ UNCHANGED courseVars
    /\ UNCHANGED sinkVars
    /\ UNCHANGED clean

\* [item for sublist in self.class_list for item in sublist]
RECURSIVE Flatten(_)
Flatten(lists) == IF lists = <<>> THEN <<>> ELSE Head(lists) \o Flatten(Tail(lists))

\* the list of lists pool.map returns, in the order of self.branches.keys()
MapResult == [n \in 1..Len(Branches) |-> whole_branch[Branches[n]]]

\* the flattened list kept as it is
DedupKeepAll(list) == {list}

\* list(set(...)): each element once, in an order the hash seed decides
Dedup(list) == Perms(Range(list))

\* pool.map returning as soon as one task has ended
SomeBranchEnded == \E u \in Units : bpc[u] \in {"returned", "raised"}

\* pool.map blocks until every task of the phase has ended
AllBranchesEnded == \A u \in Units : bpc[u] \in {"returned", "raised"}

\* pool.map returns or re-raises when every task has ended (line 92), the pool
\* is closed and its workers' state is gone, and line 94 deduplicates
BranchesJoin ==
    /\ run_pc = "scrape_branches"
    /\ AllBranchesEnded
    /\ IF \E u \in Units : bpc[u] = "raised"
       THEN /\ run_pc' = "aborted"
            /\ fault' = "ConnectionError"
            /\ UNCHANGED <<class_list, yielded>>
            /\ UNCHANGED courseVars
       ELSE /\ run_pc' = "scrape_courses"
            /\ fault' = fault
            /\ yielded' = [u \in Units |-> Range(whole_branch[u])]
            /\ \E list \in Dedup(Flatten(MapResult)) :
                 /\ class_list' = list
                 /\ cpc' = [k \in 1..Len(list) |-> "queued"]
                 /\ queries' = [k \in 1..Len(list) |-> <<>>]
                 /\ content' = [k \in 1..Len(list) |-> "none"]
                 /\ ret' = [k \in 1..Len(list) |-> ReturnFalse]
                 /\ cerr' = [k \in 1..Len(list) |-> "none"]
    /\ i' = [u \in Units |-> 0]
    /\ whole_branch' = [u \in Units |-> <<>>]
    /\ fetched' = [u \in Units |-> <<>>]
    /\ UNCHANGED <<bpc, out>>
    /\ UNCHANGED sinkVars
    /\ UNCHANGED clean

(* ---------------------------------------------------------------------- *)
(* Phase 2: scrape_courses and fetch_single_course                         *)
(* ---------------------------------------------------------------------- *)

\* the end of the task at position k once its last document is in content
Finish(k, name) ==
    LET e == Extract(class_list[k], DetailPage(name)) IN
    /\ cpc' = [cpc EXCEPT ![k] = e.pc]
    /\ cerr' = [cerr EXCEPT ![k] = e.err]
    /\ ret' = [ret EXCEPT ![k] = e.ret]

\* the term-scoped document parsed but content left as it was
ContentKept(allTerms, termScoped) == allTerms

\* line 167: content is replaced by the term-scoped document
ContentAfterFallback(allTerms, termScoped) == termScoped

\* the term-scoped query issued whatever the all-terms document holds
NeedsFallbackAlways(page) == TRUE

\* line 159: content.find('div', class_=...) is None
NeedsFallback(page) == ~page.hasDesc

\* lines 154-159: the all-terms request; the rest of the function when the
\* document has the description container
CourseFetchAllTerms(k) ==
    /\ run_pc = "scrape_courses"
    /\ k \in 1..Len(class_list)
    /\ cpc[k] = "queued"
    /\ \E name \in DetailNames :
         /\ queries' = [queries EXCEPT ![k] = Append(@, [term |-> "*", resp |-> name])]
         /\ IF DetailPage(name).raised
            THEN /\ cpc' = [cpc EXCEPT ![k] = "raised"]
                 /\ cerr' = [cerr EXCEPT ![k] = "ConnectionError"]
                 /\ UNCHANGED <<content, ret>>
            ELSE /\ content' = [content EXCEPT ![k] = name]
                 /\ IF NeedsFallback(DetailPage(name))
                    THEN /\ cpc' = [cpc EXCEPT ![k] = "fallback"]
                         /\ UNCHANGED <<ret, cerr>>
                    ELSE Finish(k, name)
    /\ UNCHANGED <<run_pc, fault, class_list, yielded>>
    /\ UNCHANGED branchVars
    /\ UNCHANGED sinkVars
    /\ UNCHANGED clean

\* lines 160-167: the term-scoped request, and the rest of the function
CourseFetchTermScoped(k) ==
    /\ run_pc = "scrape_courses"
    /\ k \in 1..Len(class_list)
    /\ cpc[k] = "fallback"
    /\ \E name \in DetailNames :
         /\ queries' = [queries EXCEPT ![k] = Append(@, [term |-> "current", resp |-> name])]
         /\ IF DetailPage(name).raised
            THEN /\ cpc' = [cpc EXCEPT ![k] = "raised"]
                 /\ cerr' = [cerr EXCEPT ![k] = "ConnectionError"]
                 /\ UNCHANGED <<content, ret>>
            ELSE /\ content' = [content EXCEPT ![k] = ContentAfterFallback(@, name)]
                 /\ Finish(k, ContentAfterFallback(content[k], name))
    /\ UNCHANGED <<run_pc, fault, class_list, yielded>>
    /\ UNCHANGED branchVars
    /\ UNCHANGED sinkVars
    /\ UNCHANGED clean

\* the test 'is not False' inverted
CollectInverted(results) ==
    LET kept == SelectSeq(results, LAMBDA r : ~r.isDict)
    IN  [n \in 1..Len(kept) |-> kept[n].val]

\* every returned value kept, False included
CollectAll(results) == [n \in 1..Len(results) |-> results[n].val]

\* tmp = [i for i in tmp if i is not False]; pd.DataFrame(tmp)
Collect(results) ==
    LET kept == SelectSeq(results, LAMBDA r : r.isDict)
    IN  [n \in 1..Len(kept) |-> kept[n].val]

\* pool.map returning as soon as one task has ended
SomeCourseEnded == \E k \in 1..Len(class_list) : cpc[k] \in {"returned", "raised"}

\* pool.map blocks until every task of the phase has ended
AllCoursesEnded == \A k \in 1..Len(class_list) : cpc[k] \in {"returned", "raised"}

\* pool.map returns or re-raises when every task has ended: lines 140-145
CoursesJoin ==
    /\ run_pc = "scrape_courses"
    /\ AllCoursesEnded
    /\ IF \E k \in 1..Len(class_list) : cpc[k] = "raised"
       THEN /\ run_pc' = "aborted"
            /\ \E k \in 1..Len(class_list) : cpc[k] = "raised" /\ fault' = cerr[k]
            /\ UNCHANGED class_info
       ELSE /\ run_pc' = "create_csv"
            /\ fault' = fault
            /\ class_info' = Collect(ret)
    /\ UNCHANGED <<class_list, yielded, csv, body, table>>
    /\ UNCHANGED branchVars
    /\ UNCHANGED courseVars
    /\ UNCHANGED clean

(* ---------------------------------------------------------------------- *)
(* The export steps of run()                                               *)
(* ---------------------------------------------------------------------- *)

\* create_csv: line 84
CreateCsv ==
    /\ run_pc = "create_csv"
    /\ csv' = [written |-> csv.written + 1, rows |-> ToCsv(class_info)]
    /\ run_pc' = "push_to_bigquery"
    /\ UNCHANGED <<fault, class_list, yielded, class_info, body, table>>
    /\ UNCHANGED branchVars
    /\ UNCHANGED courseVars
    /\ UNCHANGED clean

\* push_to_bigquery: lines 58-79. The file read is the one this run wrote
\* only when the relative path resolves to it; elsewhere it is missing, or
\* is a file left there before.
PushToBigQuery ==
    /\ run_pc = "push_to_bigquery"
    /\ \E cwd \in WorkingDirs :
         \E found \in {"missing", "stale"} :
            IF ReadPath(cwd) = WritePath
            THEN /\ body' = csv.rows
                 /\ table' = [loads |-> table.loads + 1, rows |-> csv.rows]
                 /\ run_pc' = "done"
                 /\ fault' = fault
            ELSE IF found = "missing"
            THEN /\ run_pc' = "aborted"
                 /\ fault' = "FileNotFoundError"
                 /\ UNCHANGED <<body, table>>
            ELSE /\ body' = StaleCsv
                 /\ table' = [loads |-> table.loads + 1, rows |-> StaleCsv]
                 /\ run_pc' = "done"
                 /\ fault' = fault
    /\ UNCHANGED <<class_list, yielded, class_info, csv>>
    /\ UNCHANGED branchVars
    /\ UNCHANGED courseVars
    /\ UNCHANGED clean

Next ==
    \/ \E u \in Units : BranchStart(u)
    \/ \E u \in Units : BranchFetch(u)
    \/ BranchesJoin
    \/ \E k \in 1..Len(class_list) : CourseFetchAllTerms(k)
    \/ \E k \in 1..Len(class_list) : CourseFetchTermScoped(k)
    \/ CoursesJoin
    \/ CreateCsv
    \/ PushToBigQuery

Spec == Init /\ [][Next]_vars

(* ---------------------------------------------------------------------- *)
(* cleaner on its own: the dict of one course, cleaned once and twice      *)
(* ---------------------------------------------------------------------- *)

\* longest generated line of a description container
MaxStrLen == 3

\* the characters of the generated lines
TextAlphabet == {" ", "4", "V", "a", "r"}

\* every line over TextAlphabet of at most MaxStrLen characters
GeneratedLines == UNION {[1..m -> TextAlphabet] : m \in 0..MaxStrLen}

\* lines that carry the labels, once and twice
LabelledLines ==
    { LabelPrereq \o <<" ","a","4">>,
      <<"a"," ">> \o LabelPrereq \o <<" ","r","r"," ">> \o LabelPrereq \o <<"a","a">>,
      LabelCoreq,
      LabelCoreq \o <<"a","a"," ">> \o LabelCoreq \o <<"r","r">>,
      <<"P","r","e">> \o LabelPrereq \o <<"r","e","q",":"," ","a","a">> }

TestLines == GeneratedLines \cup LabelledLines

\* sibling texts of a course feed: the text before the colon may be empty
EntryTexts == {EntryCS1, <<":", " ", "x">>, <<"a", ":">>, <<"5", ":", "x">>}

HubA == <<"H","u","b"," ","A">>

\* requirement-tag sequences
HubSeqs == {<<>>, <<HubSequenceTag>>, <<HubA>>, <<HubSequenceTag, HubA>>}

\* the lines of a well-formed description that are not under test
DefaultLines ==
    [prereq      |-> LabelPrereq \o <<" ","C","S","1">>,
     coreq       |-> LabelCoreq \o <<"M","A","2">>,
     description |-> <<"L","a","b">>,
     credit      |-> <<"4"," ","c","r">>]

LineFields == {"prereq", "coreq", "description", "credit"}

\* full_dict as lines 191-198 build it from an identifier, four lines and
\* the tag list
RawDict(course, lines, hub) ==
    [course      |-> PyStr(course),
     prereq      |-> PyStr(lines.prereq),
     coreq       |-> PyStr(lines.coreq),
     description |-> PyStr(lines.description),
     credit      |-> PyStr(lines.credit),
     hub_credit  |-> PyList(hub)]

\* cleaner raises on a dict whose description, credit, prereq or coreq is
\* None: '  ' in None (line 206), None.lower() (line 243), 'Prereq:' in None
\* (lines 214, 217)
cleanerRaises(contents) ==
    \E f \in LineFields : contents[f].t # "str"

\* the exception of the first statement of cleaner that meets None
cleanerError(contents) ==
    IF contents.description.t # "str" THEN "TypeError"
    ELSE IF contents.credit.t # "str" THEN "AttributeError"
    ELSE "TypeError"

\* the number of times the body of the while loop of line 206 runs
RECURSIVE CollapseIterations(_)
CollapseIterations(s) ==
    IF Contains(s, <<" ", " ">>)
    THEN 1 + CollapseIterations(Replace(s, <<" ", " ">>, <<" ">>))
    ELSE 0

\* the dict of a course whose identifier comes from a sibling text of the
\* feed, with one line under test
InitCleaner ==
    /\ run_pc = "cleaner"
    /\ fault = "none"
    /\ bpc = [u \in Units |-> "queued"]
    /\ i = [u \in Units |-> 0]
    /\ whole_branch = [u \in Units |-> <<>>]
    /\ fetched = [u \in Units |-> <<>>]
    /\ out = [u \in Units |-> <<>>]
    /\ class_list = <<>>
    /\ yielded = [u \in Units |-> {}]
    /\ cpc = <<>>
    /\ queries = <<>>
    /\ content = <<>>
    /\ ret = <<>>
    /\ cerr = <<>>
    /\ class_info = <<>>
    /\ csv = [written |-> 0, rows |-> <<>>]
    /\ body = <<>>
    /\ table = [loads |-> 0, rows |-> <<>>]
    /\ \E text \in EntryTexts, f \in LineFields, line \in TestLines, hub \in HubSeqs :
          clean = [CleanIdle EXCEPT
                     !.pc = "raw",
                     !.raw = RawDict(ClassCode(text), [DefaultLines EXCEPT ![f] = line], hub)]

\* cleaner(full_dict): line 200
CleanOnce ==
    /\ clean.pc = "raw"
    /\ clean' = [clean EXCEPT
                   !.pc = "cleaned",
                   !.once = cleaner(clean.raw),
                   !.collapsed = CollapseSpaces(clean.raw.description.v),
                   !.iterations = CollapseIterations(clean.raw.description.v)]
    /\ UNCHANGED <<run_pc, fault, class_list, yielded>>
    /\ UNCHANGED branchVars
    /\ UNCHANGED courseVars
    /\ UNCHANGED sinkVars

\* cleaner applied to the dict it returned
CleanTwice ==
    /\ clean.pc = "cleaned"
    /\ IF cleanerRaises(clean.once)
       THEN clean' = [clean EXCEPT !.pc = "raised", !.err = cleanerError(clean.once)]
       ELSE clean' = [clean EXCEPT !.pc = "recleaned", !.twice = cleaner(clean.once)]
    /\ UNCHANGED <<run_pc, fault, class_list, yielded>>
    /\ UNCHANGED branchVars
    /\ UNCHANGED courseVars
    /\ UNCHANGED sinkVars

NextCleaner == CleanOnce \/ CleanTwice

SpecCleaner == InitCleaner /\ [][NextCleaner]_vars

(* ---------------------------------------------------------------------- *)
(* Properties                                                              *)
(* ---------------------------------------------------------------------- *)

CS1 == <<"c","s","1">>
CS2 == <<"c","s","2">>

\* the names of the listing pages that give the termination signal
TerminatingNames ==
    {name \in ListingNames :
        ~ListingPage(name).raised /\ TerminationSignal(ListingPage(name))}

\* the names of the listing pages with a non-empty course feed
FeedNames ==
    {name \in ListingNames :
        ~ListingPage(name).raised /\ ~TerminationSignal(ListingPage(name))}

\* the identifiers of the first m pages requested by unit u, in page order
RECURSIVE IdsOfPages(_, _)
IdsOfPages(f, m) ==
    IF m = 0 THEN <<>>
    ELSE IdsOfPages(f, m - 1) \o Group(ListingPage(f[m].resp))

\* C1: a task requests the pages 0, 1, 2, ... in that order, each once; the
\* first page that gives the termination signal is the last one requested,
\* and the task then has returned exactly the identifiers of the pages
\* before it, concatenated in page order.
C1_BranchTermination ==
    \A u \in Units :
        LET f == fetched[u] IN
        /\ \A n \in 1..Len(f) : f[n].index = n - 1
        /\ \A n \in 1..Len(f) :
              f[n].resp \in TerminatingNames =>
                 /\ n = Len(f)
                 /\ n <= 200
                 /\ \A m \in 1..(n - 1) : f[m].resp \in FeedNames
                 /\ bpc[u] = "returned"
                 /\ whole_branch[u] = IdsOfPages(f, n - 1)

\* C1 witness: pages 0 and 1 have entries, page 2 has an empty feed
C1_Witness ==
    \E u \in Units :
        /\ bpc[u] = "returned"
        /\ fetched[u] = <<[index |-> 0, resp |-> "A"], [index |-> 1, resp |-> "B"],
                          [index |-> 2, resp |-> "empty"]>>
        /\ whole_branch[u] = <<CS1, CS2, CS1>>

\* phase 1 has ended without an exception
BranchesDone == run_pc # "scrape_branches" /\ \A u \in Units : bpc[u] = "returned"

\* C2: once scrape_branches has completed, class_list holds each identifier
\* that some unit yielded exactly once and nothing else, and phase 2 has one
\* task per identifier.
C2_IdentifierDeduplication ==
    BranchesDone =>
        /\ Range(class_list) = UNION {yielded[u] : u \in Units}
        /\ \A a, b \in 1..Len(class_list) : class_list[a] = class_list[b] => a = b
        /\ Len(cpc) = Len(class_list)

\* C2 witness: both units list cs1, and phase 2 runs over two identifiers
C2_Witness ==
    /\ BranchesDone
    /\ \A u \in Units : CS1 \in yielded[u]
    /\ Len(class_list) = 2
    /\ \E k \in 1..Len(class_list) : class_list[k] = CS1 /\ cpc[k] = "returned"

\* the detail documents without / with a usable description container
NotFoundNames ==
    {name \in DetailNames : ~DetailPage(name).raised /\ ~DetailPage(name).hasDesc}
WellFormedNames ==
    {name \in DetailNames : DetailPage(name).hasDesc /\ LinesSuffice(DetailPage(name))}
MalformedNames ==
    {name \in DetailNames : DetailPage(name).hasDesc /\ ~LinesSuffice(DetailPage(name))}

\* C3: when the all-terms document is NotFound and the term-scoped document
\* is well formed, the task returns a record, and the record is the cleaned
\* field set of the term-scoped document: no field comes from the all-terms
\* document.
C3_FallbackSuccess ==
    \A k \in 1..Len(class_list) :
        (/\ Len(queries[k]) = 2
         /\ queries[k][1].resp \in NotFoundNames
         /\ queries[k][2].resp \in WellFormedNames) =>
            /\ queries[k][1].term = "*" /\ queries[k][2].term = "current"
            /\ cpc[k] = "returned" /\ cerr[k] = "none"
            /\ ret[k].isDict
            /\ ret[k].val = cleaner(FullDict(class_list[k], DetailPage(queries[k][2].resp)))
            /\ ret[k].val.hub_credit.v # HubList(DetailPage(queries[k][1].resp))

\* C3 witness: cs1 resolved by the term-scoped document good1
C3_Witness ==
    \E k \in 1..Len(class_list) :
        /\ queries[k] = <<[term |-> "*", resp |-> "nodesc"],
                          [term |-> "current", resp |-> "good1"]>>
        /\ ret[k].isDict
        /\ ret[k].val.course = PyStr(class_list[k])
        /\ ret[k].val.prereq = PyStr(<<"C","S","1">>)
        /\ ret[k].val.coreq = PyNone
        /\ ret[k].val.description = PyStr(<<"I","n","t","r","o"," ","t","o">>)
        /\ ret[k].val.credit = PyStr(<<"4">>)
        /\ ret[k].val.hub_credit =
              PyList(<< <<"H","u","b"," ","A">>,
                        <<"P","a","t","h","w","a","y"," ","1"," ">> >>)

\* self.class_info has been assigned by scrape_courses
Collected ==
    \/ run_pc \in {"create_csv", "push_to_bigquery", "done"}
    \/ run_pc = "aborted" /\ fault = "FileNotFoundError"

\* both queries of the task at position k returned NotFound
Exhausted(k) ==
    /\ Len(queries[k]) = 2
    /\ queries[k][1].resp \in NotFoundNames
    /\ queries[k][2].resp \in NotFoundNames

\* C4: a course whose two queries both return NotFound makes its task return
\* False without an exception; the collection then has no record of it and
\* has the record of every other identifier whose task returned one, and
\* create_csv writes that collection.
C4_FallbackExhaustion ==
    \A k \in 1..Len(class_list) :
        Exhausted(k) =>
            /\ cpc[k] = "returned" /\ cerr[k] = "none" /\ ~ret[k].isDict
            /\ Collected =>
                 /\ \A n \in 1..Len(class_info) :
                       class_info[n].course # PyStr(class_list[k])
                 /\ \A j \in 1..Len(class_list) :
                       ret[j].isDict => \E n \in 1..Len(class_info) : class_info[n] = ret[j].val
                 /\ Len(class_info) = Cardinality({j \in 1..Len(class_list) : ret[j].isDict})
            /\ csv.written > 0 => csv.rows = ToCsv(class_info)

\* C4 witness: one course dropped, the record of the other one written
C4_Witness ==
    /\ run_pc = "done"
    /\ Len(class_list) = 2
    /\ \E k, j \in 1..Len(class_list) :
          /\ Exhausted(k)
          /\ ret[j].isDict
          /\ class_info = <<ret[j].val>>
          /\ csv.rows = <<CsvRow(ret[j].val)>>

\* C5: a transport failure of one fetch (requests.get raising a connection
\* error or a timeout) never aborts the run.
C5_NoAbortOnTransportFailure ==
    ~(run_pc = "aborted" /\ fault = "ConnectionError")

\* C6: a detail document whose description has fewer than 7 lines is treated
\* as NotFound: as the all-terms document it leads to the term-scoped query,
\* as the last document it makes the task return False, and the task never
\* raises IndexError.
C6_MalformedAsNotFound ==
    \A k \in 1..Len(class_list) :
        \A n \in 1..Len(queries[k]) :
            queries[k][n].resp \in MalformedNames =>
                /\ cerr[k] # "IndexError"
                /\ n = 1 => (cpc[k] = "fallback" \/ Len(queries[k]) = 2)
                /\ n = 2 => (cpc[k] = "returned" /\ ~ret[k].isDict)

\* the task of unit u left its loop because range(200) was exhausted
CeilingStop(u) ==
    /\ bpc[u] = "returned"
    /\ Len(fetched[u]) = 200
    /\ fetched[u][200].resp \in FeedNames

\* the task of unit u left its loop on the termination signal
NormalStop(u) ==
    /\ bpc[u] = "returned"
    /\ fetched[u] # <<>>
    /\ fetched[u][Len(fetched[u])].resp \in TerminatingNames

\* C7: a task never issues more than 200 requests, all for the indices
\* 0..199, and never stays in its loop after the 200th; when no page gave the
\* termination signal it has returned the identifiers of all 200 pages.
C7_PageCeiling ==
    \A u \in Units :
        /\ Len(fetched[u]) <= 200
        /\ \A n \in 1..Len(fetched[u]) : fetched[u][n].index \in 0..199
        /\ Len(fetched[u]) = 200 => bpc[u] # "paging"
        /\ CeilingStop(u) => whole_branch[u] = IdsOfPages(fetched[u], 200)

\* C7 witness: a unit stopped by the ceiling with 200 pages of two entries
C7_Witness ==
    \E u \in Units :
        /\ CeilingStop(u)
        /\ Len(whole_branch[u]) = 400
        /\ whole_branch[u][399] = CS1 /\ whole_branch[u][400] = CS2

\* C8: what a task stopped by the page ceiling prints differs from what a
\* task stopped by the termination signal prints.
C8_PageLimitDiagnostic ==
    \A u, w \in Units : (CeilingStop(u) /\ NormalStop(w)) => out[u] # out[w]

\* some detail request has been issued
DetailFetchIssued == \E k \in 1..Len(queries) : queries[k] # <<>>

\* C9: a detail request is issued only when every unit's task has returned
\* and class_list is the deduplicated union of their results.
C9_PhaseOrdering ==
    (Len(cpc) > 0 \/ DetailFetchIssued) =>
        /\ \A u \in Units : bpc[u] = "returned"
        /\ run_pc # "scrape_branches"
        /\ Range(class_list) = UNION {yielded[u] : u \in Units}

\* C9 witness: a detail request is in flight after both units returned
C9_Witness ==
    /\ run_pc = "scrape_courses"
    /\ \E k \in 1..Len(class_list) : cpc[k] = "fallback"
    /\ \E k \in 1..Len(class_list) : cpc[k] = "queued"

\* C10: when the run has completed, the csv file was written once and one
\* load job ran, after every task of phase 2 returned, and the rows loaded
\* are those of the collection this run crawled.
C10_SinkDelivery ==
    run_pc = "done" =>
        /\ csv.written = 1 /\ table.loads = 1
        /\ \A k \in 1..Len(class_list) : cpc[k] = "returned"
        /\ body = ToCsv(class_info)
        /\ table.rows = ToCsv(class_info)

(* ---------------------------------------------------------------------- *)
(* Properties of cleaner and filter_numerical                              *)
(* ---------------------------------------------------------------------- *)

\* cleaner has returned the dict clean.once
Cleaned == clean.pc \in {"cleaned", "recleaned", "raised"}

RecordFields == {"course", "prereq", "coreq", "description", "credit", "hub_credit"}

\* no field of d is '' or []
NoEmptyField(d) ==
    \A f \in RecordFields : ~(d[f].t \in {"str", "list"} /\ d[f].v = <<>>)

\* s has only whitespace
Blank(s) == \A n \in 1..Len(s) : IsSpace(s[n])

\* s contains 'var' in any case
HasVar(s) ==
    \E n \in 1..(Len(s) - 2) :
        s[n] \in {"v", "V"} /\ s[n + 1] \in {"a", "A"} /\ s[n + 2] \in {"r", "R"}

\* the decimal digits of s, left to right
RECURSIVE DigitsOf(_)
DigitsOf(s) ==
    IF s = <<>> THEN <<>>
    ELSE (IF Head(s) \in Digits THEN <<Head(s)>> ELSE <<>>) \o DigitsOf(Tail(s))

\* C11: no field of a dict returned by cleaner is an empty string or an
\* empty sequence; a whitespace-only line, a credit line without digits and
\* the tag sequences [] and ['Part of a Hub sequence'] become None.
C11_RecordEmptiness ==
    Cleaned =>
        /\ NoEmptyField(clean.once)
        /\ clean.pc = "recleaned" => NoEmptyField(clean.twice)
        /\ \A f \in LineFields : Blank(clean.raw[f].v) => clean.once[f] = PyNone
        /\ (~HasVar(clean.raw.credit.v) /\ DigitsOf(clean.raw.credit.v) = <<>>)
              => clean.once.credit = PyNone
        /\ clean.raw.hub_credit.v \in {<<>>, <<HubSequenceTag>>}
              => clean.once.hub_credit = PyNone

\* C11 witness: a description of two spaces and the singleton tag sequence
C11_Witness ==
    /\ clean.pc = "cleaned"
    /\ clean.raw.description.v = <<" ", " ">>
    /\ clean.raw.hub_credit.v = <<HubSequenceTag>>
    /\ clean.once.description = PyNone
    /\ clean.once.hub_credit = PyNone

\* C12: cleaner does not fail on the dict it returned and returns it
\* unchanged, and filter_numerical applied twice gives what it gives once.
C12_TotalIdempotent ==
    /\ clean.pc \in {"recleaned", "raised"} =>
          (clean.err = "none" /\ clean.twice = clean.once)
    /\ Cleaned =>
          filter_numerical(filter_numerical(clean.raw.credit.v))
             = filter_numerical(clean.raw.credit.v)

\* C13: the credit of the record is 'var' when the credit line contains
\* 'var' in any case, otherwise the digits of the line in order (one digit
\* included), and None when the line has no digit.
C13_CreditExtraction ==
    Cleaned =>
        clean.once.credit =
            IF HasVar(clean.raw.credit.v) THEN PyStr(VarSentinel)
            ELSE IF DigitsOf(clean.raw.credit.v) = <<>> THEN PyNone
            ELSE PyStr(DigitsOf(clean.raw.credit.v))

\* C13 witness: the credit line "4" gives the credit "4"
C13_Witness ==
    /\ clean.pc = "cleaned"
    /\ clean.raw.credit.v = <<"4">>
    /\ clean.once.credit = PyStr(<<"4">>)

\* the value of a text field when the loop of line 221 reaches it
PreNormalize(f) ==
    IF f = "prereq" THEN StripLabel(clean.raw.prereq.v, LabelPrereq)
    ELSE IF f = "coreq" THEN StripLabel(clean.raw.coreq.v, LabelCoreq)
    ELSE CollapseSpaces(clean.raw.description.v)

\* C14: a prerequisite, corequisite or description whose stripped length is
\* 0 or 1 becomes None whatever the character; a longer one is kept,
\* stripped.
C14_OneCharacterRule ==
    Cleaned =>
        \A f \in {"prereq", "coreq", "description"} :
            LET residual == Strip(PreNormalize(f))
            IN  clean.once[f] = IF Len(residual) <= 1 THEN PyNone ELSE PyStr(residual)

\* s without the first occurrence of label
RemoveFirst(s, label) ==
    LET f == Find(s, label)
    IN  IF f = 0 THEN s ELSE SubSeq(s, 1, f - 1) \o SubSeq(s, f + Len(label), Len(s))

\* C15: the prerequisite (corequisite) of the record is the line with only
\* the first 'Prereq:' ('Coreq:') removed, later occurrences left in place.
C15_FirstOccurrenceOnly ==
    Cleaned =>
        /\ clean.once.prereq =
              NormalizeValue(PyStr(RemoveFirst(clean.raw.prereq.v, LabelPrereq)))
        /\ clean.once.coreq =
              NormalizeValue(PyStr(RemoveFirst(clean.raw.coreq.v, LabelCoreq)))

\* C16: the while loop of the description runs at most once per character,
\* leaves no two consecutive spaces, and run on its own result changes
\* nothing.
C16_CollapseWhitespace ==
    Cleaned =>
        /\ clean.iterations <= Len(clean.raw.description.v)
        /\ \A n \in 1..(Len(clean.collapsed) - 1) :
              ~(clean.collapsed[n] = " " /\ clean.collapsed[n + 1] = " ")
        /\ CollapseSpaces(clean.collapsed) = clean.collapsed
        /\ CollapseIterations(clean.collapsed) = 0

\* C16 witness: three spaces collapse to one in two rounds
C16_Witness ==
    /\ clean.pc = "cleaned"
    /\ clean.raw.description.v = <<" ", " ", " ">>
    /\ clean.collapsed = <<" ">>
    /\ clean.iterations = 2

\* C18: the record of a course carries the identifier the listing yielded,
\* unaltered.
C18_IdentifierKept ==
    Cleaned => clean.once.course = clean.raw.course

(* ---------------------------------------------------------------------- *)
(* Properties of the crawl, continued                                      *)
(* ---------------------------------------------------------------------- *)

\* the task at position k has ended
CourseEnded(k) == cpc[k] \in {"returned", "raised"}

\* C17: the first request of a task is the all-terms query; a second one is
\* the term-scoped query and is issued only after an all-terms document
\* without the description container; there is no third; a task whose
\* all-terms document has the container ends after one request.
C17_FetchProtocol ==
    \A k \in 1..Len(class_list) :
        LET q == queries[k] IN
        /\ Len(q) <= 2
        /\ Len(q) >= 1 => q[1].term = "*"
        /\ Len(q) = 2 =>
              /\ q[2].term = "current"
              /\ ~DetailPage(q[1].resp).raised
              /\ ~DetailPage(q[1].resp).hasDesc
        /\ (CourseEnded(k) /\ DetailPage(q[1].resp).hasDesc) => Len(q) = 1
        /\ (CourseEnded(k) /\ q[1].resp \in NotFoundNames) => Len(q) = 2
        /\ cpc[k] = "fallback" => (Len(q) = 1 /\ q[1].resp \in NotFoundNames)

\* C17 witness: one task resolved by its all-terms query, one by the
\* term-scoped query
C17_Witness ==
    \E k, j \in 1..Len(class_list) :
        /\ cpc[k] = "returned" /\ Len(queries[k]) = 1 /\ ret[k].isDict
        /\ cpc[j] = "returned" /\ Len(queries[j]) = 2 /\ ret[j].isDict

\* the dicts among the returned values, in the order of the tasks
RECURSIVE RecordsOf(_)
RecordsOf(results) ==
    IF results = <<>> THEN <<>>
    ELSE (IF Head(results).isDict THEN <<Head(results).val>> ELSE <<>>)
         \o RecordsOf(Tail(results))

\* One step of the run: class_list and class_info change only in a step of
\* the orchestrator taken when every task of the phase has returned, and get
\* the merge of the tasks' own results; a step of one task leaves the state
\* of every other task alone.
MapThenReduceStep ==
    /\ class_list' # class_list =>
          /\ run_pc = "scrape_branches"
          /\ \A u \in Units : bpc[u] = "returned"
          /\ Range(class_list') = UNION {Range(whole_branch[u]) : u \in Units}
    /\ class_info' # class_info =>
          /\ run_pc = "scrape_courses"
          /\ \A k \in 1..Len(class_list) : cpc[k] = "returned"
          /\ class_info' = RecordsOf(ret)
    /\ \A u, w \in Units :
          (/\ u # w
           /\ run_pc' = "scrape_branches"
           /\ <<bpc[u], i[u], whole_branch[u], fetched[u]>>
                 # <<bpc'[u], i'[u], whole_branch'[u], fetched'[u]>>) =>
              <<bpc[w], i[w], whole_branch[w], fetched[w], out[w]>>
                 = <<bpc'[w], i'[w], whole_branch'[w], fetched'[w], out'[w]>>
    /\ \A k, j \in 1..Len(class_list) :
          (/\ k # j
           /\ run_pc = "scrape_courses" /\ run_pc' = "scrape_courses"
           /\ <<cpc[k], ret[k], queries[k]>> # <<cpc'[k], ret'[k], queries'[k]>>) =>
              <<cpc[j], ret[j], queries[j], content[j], cerr[j]>>
                 = <<cpc'[j], ret'[j], queries'[j], content'[j], cerr'[j]>>

\* what a task returns is decided by its identifier and its own responses
OwnResult ==
    \A k \in 1..Len(class_list) :
        cpc[k] = "returned" =>
            ret[k] = Extract(class_list[k],
                             DetailPage(queries[k][Len(queries[k])].resp)).ret

\* C19: no task writes class_list, class_info or another task's state; the
\* orchestrator assigns class_list and class_info from the tasks' returned
\* values once every task of the phase has returned, so the merge is the
\* same under every interleaving.
C19_MapThenReduce == [][MapThenReduceStep]_vars /\ []OwnResult

\* C19 witness: the results of two tasks merged by the orchestrator
C19_Witness ==
    /\ run_pc = "push_to_bigquery"
    /\ Len(class_info) = 2
    /\ class_info[1].course # class_info[2].course

\* C20: once scrape_courses has assigned class_info, it has at most one
\* record per identifier of class_list, a record for exactly the identifiers
\* whose task returned a dict, and no entry for a returned False.
C20_OutputBounded ==
    Collected =>
        /\ Len(class_info) <= Len(class_list)
        /\ \A n \in 1..Len(class_info) :
              /\ class_info[n] # NoDict
              /\ \E k \in 1..Len(class_list) :
                    /\ ret[k].isDict
                    /\ class_info[n] = ret[k].val
                    /\ class_info[n].course = PyStr(class_list[k])
        /\ \A k \in 1..Len(class_list) :
              ret[k].isDict <=>
                 \E n \in 1..Len(class_info) : class_info[n].course = PyStr(class_list[k])
        /\ \A n, m \in 1..Len(class_info) :
              class_info[n].course = class_info[m].course => n = m

\* C20 witness: two identifiers, one dropped, one record collected
C20_Witness ==
    /\ run_pc = "create_csv"
    /\ Len(class_list) = 2
    /\ Len(class_info) = 1
    /\ \E k \in 1..Len(class_list) : cpc[k] = "returned" /\ ~ret[k].isDict

====
